---- MODULE Spec2Model ----
(***************************************************************************)
(* Folder management (worker/database/services/FolderService.ts,           *)
(* worker/api/controllers/folders/controller.ts), the folder dialog        *)
(* (src/components/shared/FolderDialog.tsx) and the status tracker hook    *)
(* (useStatusTracker).                                                     *)
(*                                                                         *)
(* Strings that the code measures, trims or compares (folder names) are    *)
(* sequences of character codes.  An optional value (undefined / null in   *)
(* the source) is a sequence of length 0 or 1.                             *)
(***************************************************************************)
EXTENDS Integers, Sequences, FiniteSets, TLC

VARIABLES
    \* the database, the generateId counter, the server's clock and the last
    \* response of the controller
    folders, appFolders, apps, nextId, clock, last,
    \* useStatusTracker: its two pieces of state, Date.now(), and every
    \* activity handed to setActivities so far
    activities, lastMessageTimestamp, dateNow, logged,
    \* FolderDialog in create mode: its props and state, and the onSave call
    \* it awaits
    open, formData, isLoading, error, saving,
    \* the moveAppToFolder requests in flight, one per worker, each at the
    \* statement it awaits
    calls

storeVars == <<folders, appFolders, apps, nextId, clock, last>>

trackerVars == <<activities, lastMessageTimestamp, dateNow, logged>>

dialogVars == <<open, formData, isLoading, error, saving>>

vars == <<folders, appFolders, apps, nextId, clock, last,
          activities, lastMessageTimestamp, dateNow, logged,
          open, formData, isLoading, error, saving, calls>>

----------------------------------------------------------------------------
(* Bounds of the exploration *)

\* number of folders created in one behaviour of Spec
MaxFolders == 2

\* number of folders created in one behaviour of SpecList
MaxListFolders == 3

\* number of calls the status tracker receives in one behaviour
MaxCalls == 61

\* the first MaxMixed calls of the status tracker are of any kind, the later
\* ones are phase_generating messages
MaxMixed == 2

\* the server's clock runs from 0 to MaxClock in one behaviour of SpecUpdate
MaxClock == 1

\* folders created in SpecCreate
MaxCreated == 3

----------------------------------------------------------------------------
(* Optional values and strings *)

None == <<>>

Some(v) == <<v>>

IsSome(o) == o /= <<>>

Val(o) == o[1]

Rep(c, n) == [i \in 1..n |-> c]

\* the whitespace the inputs use is the space character (code 32)
IsWhite(c) == c = 32

RECURSIVE TrimStart(_)
TrimStart(s) ==
    IF s = <<>> THEN <<>>
    ELSE IF IsWhite(Head(s)) THEN TrimStart(Tail(s)) ELSE s

RECURSIVE TrimEnd(_)
TrimEnd(s) ==
    IF s = <<>> THEN <<>>
    ELSE IF IsWhite(s[Len(s)]) THEN TrimEnd(SubSeq(s, 1, Len(s) - 1)) ELSE s

\* String.prototype.trim
Trim(s) == TrimEnd(TrimStart(s))

\* SQLite BINARY collation: bytewise comparison, a proper prefix sorts first
RECURSIVE StrLess(_, _)
StrLess(a, b) ==
    IF b = <<>> THEN FALSE
    ELSE IF a = <<>> THEN TRUE
    ELSE IF Head(a) < Head(b) THEN TRUE
    ELSE IF Head(a) > Head(b) THEN FALSE
    ELSE StrLess(Tail(a), Tail(b))

Max(S) == CHOOSE x \in S : \A y \in S : y <= x

\* all orders in which a query may scan the rows of S
Scans(S) ==
    { s \in [1..Cardinality(S) -> S] : \A x \in S : \E i \in DOMAIN s : s[i] = x }

----------------------------------------------------------------------------
(* The database: tables folders, app_folders and apps.  generateId is the   *)
(* counter nextId; an app_folders row is keyed by (appId, folderId), the     *)
(* pair its unique index covers, so its own id and added_at are left out.    *)

Users == {"u1", "u2"}

InitApps ==
    { [id |-> "a1", userId |-> "u1", updatedAt |-> 1],
      [id |-> "a2", userId |-> "u1", updatedAt |-> 2] }

DB == [folders |-> folders, appFolders |-> appFolders, apps |-> apps,
       nextId |-> nextId]

\* folders LEFT JOIN app_folders ON folders.id = app_folders.folder_id, for
\* the folders fs: a folder without associations gives one row whose
\* app_folders columns are NULL
LeftJoin(db, fs) ==
    UNION { IF \A af \in db.appFolders : af.folderId /= f.id
            THEN { [folder |-> f, appId |-> None] }
            ELSE { [folder |-> f, appId |-> Some(af.appId)] :
                      af \in { x \in db.appFolders : x.folderId = f.id } }
            : f \in fs }

\* mutant: count(*), which counts the row of NULLs too
CountAppIds_CountStar(group) == Cardinality(group)

\* count(appFolders.appId): the rows of the group whose appId is not NULL
CountAppIds(group) == Cardinality({ row \in group : IsSome(row.appId) })

\* the appCount column of the group of folderId (GROUP BY folders.id)
AppCount(db, folderId) ==
    CountAppIds({ row \in LeftJoin(db, db.folders) : row.folder.id = folderId })

WithAppCount(db, f) ==
    [id |-> f.id, userId |-> f.userId, name |-> f.name,
     description |-> f.description, color |-> f.color, icon |-> f.icon,
     order |-> f.order, createdAt |-> f.createdAt, updatedAt |-> f.updatedAt,
     appCount |-> AppCount(db, f.id)]

\* mutant: ORDER BY folders.order, folders.name (ascending order)
RowBefore_Ascending(x, y) ==
    \/ x.order < y.order
    \/ x.order = y.order /\ StrLess(x.name, y.name)

\* ORDER BY desc(folders.order), folders.name
RowBefore(x, y) ==
    \/ x.order > y.order
    \/ x.order = y.order /\ StrLess(x.name, y.name)

RECURSIVE InsertSorted(_, _)
InsertSorted(x, s) ==
    IF s = <<>> THEN <<x>>
    ELSE IF RowBefore(x, Head(s)) THEN <<x>> \o s
    ELSE <<Head(s)>> \o InsertSorted(x, Tail(s))

RECURSIVE OrderBy(_)
OrderBy(s) == IF s = <<>> THEN <<>> ELSE InsertSorted(Head(s), OrderBy(Tail(s)))

\* FolderService.getUserFolders: the result sequences the query may return
\* (rows that compare equal come out in an order SQL leaves open)
getUserFolders(db, userId) ==
    LET rows == { WithAppCount(db, f) : f \in { g \in db.folders : g.userId = userId } }
    IN  { OrderBy(scan) : scan \in Scans(rows) }

\* mutant: the WHERE clause leaves out eq(folders.userId, userId)
getFolderById_AnyOwner(db, folderId, userId) ==
    LET rows == { f \in db.folders : f.id = folderId }
    IN  IF rows = {} THEN None
        ELSE Some(WithAppCount(db, CHOOSE f \in rows : TRUE))

\* FolderService.getFolderById: result[0] || null
getFolderById(db, folderId, userId) ==
    LET rows == { f \in db.folders : f.id = folderId /\ f.userId = userId }
    IN  IF rows = {} THEN None
        ELSE Some(WithAppCount(db, CHOOSE f \in rows : TRUE))

\* SELECT ... FROM folders WHERE id = folderId LIMIT 1
SelectFolder(db, folderId) ==
    LET rows == { f \in db.folders : f.id = folderId }
    IN  IF rows = {} THEN None ELSE Some(CHOOSE f \in rows : TRUE)

\* mutant: the MAX is taken over the folders of every user
MaxOrder_AllUsers(db, userId) ==
    LET os == { f.order : f \in db.folders }
    IN  IF os = {} THEN -1 ELSE Max(os)

\* mutant: the result of the MAX query is not read, the default is always used
MaxOrder_AlwaysDefault(db, userId) == -1

\* COALESCE(MAX(order), -1) over the user's folders
MaxOrder(db, userId) ==
    LET os == { f.order : f \in { g \in db.folders : g.userId = userId } }
    IN  IF os = {} THEN -1 ELSE Max(os)

\* FolderService.createFolder
createFolder(db, userId, folderData, now) ==
    LET folderId  == db.nextId
        nextOrder == MaxOrder(db, userId) + 1
        newFolder == [id |-> folderId, userId |-> userId,
                      name |-> folderData.name,
                      description |-> folderData.description,
                      color |-> folderData.color, icon |-> folderData.icon,
                      order |-> nextOrder, createdAt |-> now, updatedAt |-> now]
        db2 == [db EXCEPT !.folders = @ \cup {newFolder}, !.nextId = @ + 1]
    IN  [db |-> db2, ret |-> SelectFolder(db2, folderId)]

\* mutant: a field the request leaves out is written as NULL
ApplyUpdates_OverwritesMissing(f, updates, now) ==
    [f EXCEPT
        !.name        = IF IsSome(updates.name) THEN Val(updates.name) ELSE @,
        !.description = updates.description,
        !.color       = updates.color,
        !.icon        = updates.icon,
        !.order       = IF IsSome(updates.order) THEN Val(updates.order) ELSE @,
        !.updatedAt   = now]

\* .set({...updates, updatedAt: new Date()}): a field left undefined is not set
ApplyUpdates(f, updates, now) ==
    [f EXCEPT
        !.name        = IF IsSome(updates.name) THEN Val(updates.name) ELSE @,
        !.description = IF IsSome(updates.description) THEN updates.description ELSE @,
        !.color       = IF IsSome(updates.color) THEN updates.color ELSE @,
        !.icon        = IF IsSome(updates.icon) THEN updates.icon ELSE @,
        !.order       = IF IsSome(updates.order) THEN Val(updates.order) ELSE @,
        !.updatedAt   = now]

\* mutant: no ownership check, and the UPDATE selects the row by id alone
updateFolder_NoOwnerCheck(db, folderId, userId, updates, now) ==
    IF ~IsSome(SelectFolder(db, folderId))
    THEN [db |-> db, ret |-> None]
    ELSE LET db2 == [db EXCEPT !.folders =
                        { IF f.id = folderId
                          THEN ApplyUpdates(f, updates, now) ELSE f : f \in @ }]
         IN  [db |-> db2, ret |-> SelectFolder(db2, folderId)]

\* FolderService.updateFolder
updateFolder(db, folderId, userId, updates, now) ==
    IF ~IsSome(getFolderById(db, folderId, userId))
    THEN [db |-> db, ret |-> None]
    ELSE LET db2 == [db EXCEPT !.folders =
                        { IF f.id = folderId /\ f.userId = userId
                          THEN ApplyUpdates(f, updates, now) ELSE f : f \in @ }]
         IN  [db |-> db2, ret |-> SelectFolder(db2, folderId)]

\* mutant: the associations of the folder are not removed
DeleteAppFoldersOfFolder_Skipped(db, folderId) == db

\* mutant: the apps filed in the folder are deleted with their associations
DeleteAppFoldersOfFolder_AndApps(db, folderId) ==
    [db EXCEPT
        !.appFolders = { af \in @ : af.folderId /= folderId },
        !.apps = { a \in @ : \A af \in db.appFolders :
                                 ~(af.folderId = folderId /\ af.appId = a.id) }]

\* DELETE FROM app_folders WHERE folder_id = folderId
DeleteAppFoldersOfFolder(db, folderId) ==
    [db EXCEPT !.appFolders = { af \in @ : af.folderId /= folderId }]

\* DELETE FROM folders WHERE id = folderId AND user_id = userId
DeleteFolderRow(db, folderId, userId) ==
    [db EXCEPT !.folders = { f \in @ : ~(f.id = folderId /\ f.userId = userId) }]

\* FolderService.deleteFolder; removed counts the app_folders rows deleted
deleteFolder(db, folderId, userId) ==
    IF ~IsSome(getFolderById(db, folderId, userId))
    THEN [db |-> db, ret |-> FALSE, removed |-> 0]
    ELSE [db |-> DeleteFolderRow(DeleteAppFoldersOfFolder(db, folderId),
                                 folderId, userId),
          ret |-> TRUE, removed |-> AppCount(db, folderId)]

\* mutant: the existing associations of the app are not removed
DeleteAppFoldersOfApp_Skipped(db, appId) == db

\* DELETE FROM app_folders WHERE app_id = appId
DeleteAppFoldersOfApp(db, appId) ==
    [db EXCEPT !.appFolders = { af \in @ : af.appId /= appId }]

\* mutant: the new association is not inserted
InsertAppFolder_Skipped(db, appId, folderId) == db

\* INSERT INTO app_folders
InsertAppFolder(db, appId, folderId) ==
    [db EXCEPT !.appFolders = @ \cup { [appId |-> appId, folderId |-> folderId] }]

\* mutant: the app only has to exist
AppOwnedBy_AnyOwner(db, appId, userId) ==
    \E a \in db.apps : a.id = appId

\* app[0] && app[0].userId === userId
AppOwnedBy(db, appId, userId) ==
    \E a \in db.apps : a.id = appId /\ a.userId = userId

\* number of app_folders rows a DELETE ... WHERE app_id = appId removes
RowsOfApp(db, appId) == Cardinality({ af \in db.appFolders : af.appId = appId })

\* mutant: a null folderId is not handled apart, so the folder check refuses it
moveAppToFolder_NullNotSpecial(db, appId, folderId, userId) ==
    IF ~AppOwnedBy(db, appId, userId)
    THEN [db |-> db, ret |-> FALSE, at |-> "app not owned", removed |-> 0]
    ELSE IF folderId = None \/ ~IsSome(getFolderById(db, Val(folderId), userId))
    THEN [db |-> db, ret |-> FALSE, at |-> "folder not owned", removed |-> 0]
    ELSE [db |-> InsertAppFolder(DeleteAppFoldersOfApp(db, appId), appId, Val(folderId)),
          ret |-> TRUE, at |-> "moved", removed |-> RowsOfApp(db, appId)]

\* mutant: the ownership of the target folder is not verified
moveAppToFolder_NoFolderCheck(db, appId, folderId, userId) ==
    IF ~AppOwnedBy(db, appId, userId)
    THEN [db |-> db, ret |-> FALSE, at |-> "app not owned", removed |-> 0]
    ELSE IF folderId = None
    THEN [db |-> DeleteAppFoldersOfApp(db, appId), ret |-> TRUE, at |-> "unfiled",
          removed |-> RowsOfApp(db, appId)]
    ELSE [db |-> InsertAppFolder(DeleteAppFoldersOfApp(db, appId), appId, Val(folderId)),
          ret |-> TRUE, at |-> "moved", removed |-> RowsOfApp(db, appId)]

\* FolderService.moveAppToFolder; folderId is None for null.  at names the
\* return statement reached, removed the rows the DELETE statement removed.
moveAppToFolder(db, appId, folderId, userId) ==
    IF ~AppOwnedBy(db, appId, userId)
    THEN [db |-> db, ret |-> FALSE, at |-> "app not owned", removed |-> 0]
    ELSE IF folderId = None
    THEN [db |-> DeleteAppFoldersOfApp(db, appId), ret |-> TRUE, at |-> "unfiled",
          removed |-> RowsOfApp(db, appId)]
    ELSE IF ~IsSome(getFolderById(db, Val(folderId), userId))
    THEN [db |-> db, ret |-> FALSE, at |-> "folder not owned", removed |-> 0]
    ELSE [db |-> InsertAppFolder(DeleteAppFoldersOfApp(db, appId), appId, Val(folderId)),
          ret |-> TRUE, at |-> "moved", removed |-> RowsOfApp(db, appId)]

\* ORDER BY desc(apps.updatedAt)
RECURSIVE InsertByUpdatedAt(_, _)
InsertByUpdatedAt(x, s) ==
    IF s = <<>> THEN <<x>>
    ELSE IF x.updatedAt > Head(s).updatedAt THEN <<x>> \o s
    ELSE <<Head(s)>> \o InsertByUpdatedAt(x, Tail(s))

RECURSIVE OrderByUpdatedAt(_)
OrderByUpdatedAt(s) ==
    IF s = <<>> THEN <<>> ELSE InsertByUpdatedAt(Head(s), OrderByUpdatedAt(Tail(s)))

\* FolderService.getAppsInFolder: [] when the folder is not the user's, else
\* the user's apps joined through app_folders, most recently updated first;
\* the result sequences the query may return
getAppsInFolder(db, folderId, userId) ==
    IF ~IsSome(getFolderById(db, folderId, userId)) THEN {<<>>}
    ELSE LET rows == { a \in db.apps :
                          /\ a.userId = userId
                          /\ \E af \in db.appFolders :
                                af.appId = a.id /\ af.folderId = folderId }
         IN  { OrderByUpdatedAt(scan) : scan \in Scans(rows) }

\* FolderService.getAppFolder: result[0]?.folderId || null under LIMIT 1;
\* with several rows any one of them may be the first
getAppFolder(db, appId) ==
    LET rows == { af \in db.appFolders : af.appId = appId }
    IN  IF rows = {} THEN {None} ELSE { Some(af.folderId) : af \in rows }

----------------------------------------------------------------------------
(* FolderController: one action per request handler.  A handler runs to     *)
(* completion; last records the response it produced.                       *)

\* the longest folder name the controller accepts
MaxNameLength == 50

\* an empty :id path parameter
NoId == 0

\* last: the handler that ran last, the status and message of its response,
\* whether the service call it made returned a truthy result, the id of the
\* folder it created, the return statement moveAppToFolder reached and the
\* number of app_folders rows its DELETE statement removed
NoCall == [op |-> "none", status |-> 0, message |-> "", ok |-> FALSE, newId |-> NoId,
           at |-> "", removed |-> 0]

Call(op, status, message, ok, newId) ==
    [op |-> op, status |-> status, message |-> message, ok |-> ok, newId |-> newId,
     at |-> "", removed |-> 0]

\* mutant: the optional value is passed on as received
OptTrim_NoTrim(o) == o

\* x?.trim()
OptTrim(o) == IF IsSome(o) THEN Some(Trim(Val(o))) ELSE None

Commit(db) ==
    /\ folders' = db.folders
    /\ appFolders' = db.appFolders
    /\ apps' = db.apps
    /\ nextId' = db.nextId

\* FolderController.getFolder
HGetFolder(u, folderId) ==
    /\ last' =
         IF folderId = NoId
         THEN Call("getFolder", 400, "Folder ID is required", FALSE, NoId)
         ELSE IF ~IsSome(getFolderById(DB, folderId, u))
         THEN Call("getFolder", 404, "Folder not found", FALSE, NoId)
         ELSE Call("getFolder", 200, "", TRUE, NoId)
    /\ UNCHANGED <<folders, appFolders, apps, nextId, clock>>

\* !body.name || body.name.trim().length === 0
NameMissing(name) == ~IsSome(name) \/ Val(name) = <<>> \/ Len(Trim(Val(name))) = 0

\* mutant: body.name.length >= 50
NameTooLong_OffByOne(name) == Len(Val(name)) >= MaxNameLength

\* body.name.length > 50
NameTooLong(name) == Len(Val(name)) > MaxNameLength

\* FolderController.createFolder
HCreateFolder(u, body) ==
    /\ IF NameMissing(body.name)
       THEN /\ last' = Call("createFolder", 400, "Folder name is required", FALSE, NoId)
            /\ UNCHANGED <<folders, appFolders, apps, nextId>>
       ELSE IF NameTooLong(body.name)
       THEN /\ last' = Call("createFolder", 400,
                            "Folder name must be 50 characters or less", FALSE, NoId)
            /\ UNCHANGED <<folders, appFolders, apps, nextId>>
       ELSE LET r == createFolder(DB, u,
                        [name |-> Trim(Val(body.name)),
                         description |-> OptTrim(body.description),
                         color |-> body.color, icon |-> body.icon], clock)
                folder == Val(r.ret)
                folderWithCount == getFolderById(r.db, folder.id, u)
            IN  /\ Commit(r.db)
                /\ last' = Call("createFolder", 200, "", IsSome(folderWithCount), folder.id)
    /\ UNCHANGED clock

\* FolderController.updateFolder
HUpdateFolder(u, folderId, body) ==
    /\ IF folderId = NoId
       THEN /\ last' = Call("updateFolder", 400, "Folder ID is required", FALSE, NoId)
            /\ UNCHANGED <<folders, appFolders, apps, nextId>>
       ELSE IF IsSome(body.name) /\ Len(Trim(Val(body.name))) = 0
       THEN /\ last' = Call("updateFolder", 400, "Folder name cannot be empty", FALSE, NoId)
            /\ UNCHANGED <<folders, appFolders, apps, nextId>>
       ELSE IF IsSome(body.name) /\ NameTooLong(body.name)
       THEN /\ last' = Call("updateFolder", 400,
                            "Folder name must be 50 characters or less", FALSE, NoId)
            /\ UNCHANGED <<folders, appFolders, apps, nextId>>
       ELSE LET r == updateFolder(DB, folderId, u,
                        [name |-> OptTrim(body.name),
                         description |-> OptTrim(body.description),
                         color |-> body.color, icon |-> body.icon,
                         order |-> body.order], clock)
            IN  /\ Commit(r.db)
                /\ last' =
                     IF ~IsSome(r.ret)
                     THEN Call("updateFolder", 404, "Folder not found", FALSE, NoId)
                     ELSE Call("updateFolder", 200, "", TRUE, NoId)
    /\ UNCHANGED clock

\* FolderController.deleteFolder
HDeleteFolder(u, folderId) ==
    /\ IF folderId = NoId
       THEN /\ last' = Call("deleteFolder", 400, "Folder ID is required", FALSE, NoId)
            /\ UNCHANGED <<folders, appFolders, apps, nextId>>
       ELSE LET r == deleteFolder(DB, folderId, u)
            IN  /\ Commit(r.db)
                /\ last' =
                     IF ~r.ret
                     THEN Call("deleteFolder", 404, "Folder not found", FALSE, NoId)
                     ELSE [Call("deleteFolder", 200, "Folder deleted successfully",
                                TRUE, NoId) EXCEPT !.removed = r.removed]
    /\ UNCHANGED clock

\* FolderController.moveAppToFolder; body.appId "" is a missing app id
HMoveAppToFolder(u, body) ==
    /\ IF body.appId = ""
       THEN /\ last' = Call("moveAppToFolder", 400, "App ID is required", FALSE, NoId)
            /\ UNCHANGED <<folders, appFolders, apps, nextId>>
       ELSE LET r == moveAppToFolder(DB, body.appId, body.folderId, u)
            IN  /\ Commit(r.db)
                /\ last' =
                     IF ~r.ret
                     THEN [Call("moveAppToFolder", 404, "App or folder not found",
                                FALSE, NoId) EXCEPT !.at = r.at]
                     ELSE [Call("moveAppToFolder", 200,
                                IF IsSome(body.folderId) THEN "App moved to folder"
                                ELSE "App removed from folder",
                                TRUE, NoId)
                             EXCEPT !.at = r.at, !.removed = r.removed]
    /\ UNCHANGED clock

\* FolderController.getAppsInFolder: whatever list the service returns is the
\* data of a success response; removed is left 0 and newId NoId
HGetAppsInFolder(u, folderId) ==
    /\ last' =
         IF folderId = NoId
         THEN Call("getAppsInFolder", 400, "Folder ID is required", FALSE, NoId)
         ELSE LET result == getAppsInFolder(DB, folderId, u)
              IN  Call("getAppsInFolder", 200, "", result /= {}, NoId)
    /\ UNCHANGED <<folders, appFolders, apps, nextId, clock>>

----------------------------------------------------------------------------
(* POST /api/folders/move statement by statement.  Each request is handled  *)
(* by a worker of its own; the handler gives up control at every await, so  *)
(* the statements of two requests interleave.  The statements are not       *)
(* wrapped in a transaction.                                                *)

Workers == {"w1", "w2"}

\* a request in flight: the service method it runs (op), the statement it
\* awaits (pc), its user and body, the response once it is done, the rows its
\* DELETE removed and whether the row it is about to insert was among them
\* (hadTarget), the name and the order of the folder a create is about to
\* insert (name, nextOrder), and whether
\* another request wrote the same rows between its two statements (raced)
IdleCall ==
    [op |-> "", pc |-> "idle", u |-> "", appId |-> "", folderId |-> None,
     name |-> <<>>, status |-> 0, message |-> "", removed |-> 0, hadTarget |-> FALSE,
     nextOrder |-> 0, raced |-> FALSE]

\* BaseService.handleDatabaseError: logs the failure with the operation's name
\* and context and throws, so the controller's catch answers 500
handleDatabaseError(operation) == [threw |-> TRUE, operation |-> operation]

\* the unique index app_folders_app_folder_idx refuses a second row (appId, folderId)
UniqueViolation(db, appId, folderId) ==
    \E af \in db.appFolders : af.appId = appId /\ af.folderId = folderId

\* mutant: the foreign key of app_folders.folder_id is not enforced
ForeignKeyViolation_NotEnforced(db, folderId) == FALSE

\* FOREIGN KEY (folder_id) REFERENCES folders(id): a row may only reference a
\* folder that exists
ForeignKeyViolation(db, folderId) == \A f \in db.folders : f.id /= folderId

\* ... ON DELETE cascade: with a folder's row the app_folders rows that
\* reference it go too
DeleteFolderRowCascade(db, folderId, userId) ==
    LET db2 == DeleteFolderRow(db, folderId, userId)
    IN  [db2 EXCEPT !.appFolders =
            { af \in @ : \E f \in db2.folders : f.id = af.folderId }]

Done(c, status, message) == [c EXCEPT !.pc = "done", !.status = status, !.message = message]

\* worker p has written the associations of appId: the requests that stand
\* between their DELETE and their INSERT for that app have been overtaken
Overtake(p, appId, c) ==
    [q \in Workers |->
        IF q = p THEN c
        ELSE IF calls[q].pc = "insert" /\ calls[q].appId = appId
        THEN [calls[q] EXCEPT !.raced = TRUE]
        ELSE calls[q]]

\* the handler up to the first statement of the service: the app's row is read
MoveBegin(p, u, body) ==
    /\ calls[p].pc \in {"idle", "done"}
    /\ LET c == [IdleCall EXCEPT !.op = "moveAppToFolder", !.u = u,
                                 !.appId = body.appId, !.folderId = body.folderId]
       IN  calls' = [calls EXCEPT ![p] =
                IF body.appId = "" THEN Done(c, 400, "App ID is required")
                ELSE IF ~AppOwnedBy(DB, body.appId, u)
                THEN Done(c, 404, "App or folder not found")
                ELSE IF body.folderId = None THEN [c EXCEPT !.pc = "unfile"]
                ELSE [c EXCEPT !.pc = "verifyFolder"]]
    /\ UNCHANGED storeVars

\* folderId === null: the DELETE, then return true
MoveUnfile(p) ==
    /\ calls[p].pc = "unfile"
    /\ Commit(DeleteAppFoldersOfApp(DB, calls[p].appId))
    /\ calls' = Overtake(p, calls[p].appId,
                    [Done(calls[p], 200, "App removed from folder")
                        EXCEPT !.removed = RowsOfApp(DB, calls[p].appId)])
    /\ UNCHANGED <<clock, last>>

\* const folder = await this.getFolderById(folderId, userId)
MoveVerifyFolder(p) ==
    /\ calls[p].pc = "verifyFolder"
    /\ calls' = [calls EXCEPT ![p] =
            IF ~IsSome(getFolderById(DB, Val(calls[p].folderId), calls[p].u))
            THEN Done(calls[p], 404, "App or folder not found")
            ELSE [calls[p] EXCEPT !.pc = "delete"]]
    /\ UNCHANGED storeVars

\* mutant: the DELETE removes the app's rows for other folders only
MoveDelete_OtherFoldersOnly(p) ==
    /\ calls[p].pc = "delete"
    /\ appFolders' = { af \in appFolders :
            af.appId = calls[p].appId => af.folderId = Val(calls[p].folderId) }
    /\ calls' = Overtake(p, calls[p].appId,
                    [calls[p] EXCEPT
                        !.pc = "insert",
                        !.removed = RowsOfApp(DB, calls[p].appId),
                        !.hadTarget = UniqueViolation(DB, calls[p].appId,
                                                      Val(calls[p].folderId))])
    /\ UNCHANGED <<folders, apps, nextId, clock, last>>

\* mutant: the request goes on to its INSERT without the DELETE
MoveDelete_NoDelete(p) ==
    /\ calls[p].pc = "delete"
    /\ calls' = [calls EXCEPT ![p] = [calls[p] EXCEPT !.pc = "insert"]]
    /\ UNCHANGED storeVars

\* await this.database.delete(appFolders).where(eq(appFolders.appId, appId))
MoveDelete(p) ==
    /\ calls[p].pc = "delete"
    /\ Commit(DeleteAppFoldersOfApp(DB, calls[p].appId))
    /\ calls' = Overtake(p, calls[p].appId,
                    [calls[p] EXCEPT
                        !.pc = "insert",
                        !.removed = RowsOfApp(DB, calls[p].appId),
                        !.hadTarget = UniqueViolation(DB, calls[p].appId,
                                                      Val(calls[p].folderId))])
    /\ UNCHANGED <<clock, last>>

\* await this.database.insert(appFolders).values(newAppFolder), then return
\* true; a row the unique index or the foreign key refuses makes the
\* statement throw
MoveInsert(p) ==
    /\ calls[p].pc = "insert"
    /\ IF \/ UniqueViolation(DB, calls[p].appId, Val(calls[p].folderId))
          \/ ForeignKeyViolation(DB, Val(calls[p].folderId))
       THEN /\ handleDatabaseError("moveAppToFolder").threw
            /\ calls' = [calls EXCEPT ![p] =
                            Done(calls[p], 500, "Failed to move app to folder")]
            /\ UNCHANGED <<folders, appFolders, apps, nextId>>
       ELSE /\ Commit(InsertAppFolder(DB, calls[p].appId, Val(calls[p].folderId)))
            /\ calls' = Overtake(p, calls[p].appId,
                            Done(calls[p], 200, "App moved to folder"))
    /\ UNCHANGED <<clock, last>>

\* the INSERT fails in the storage layer: nothing is written, the service's
\* catch runs and the controller answers 500
MoveInsertFails(p) ==
    /\ calls[p].pc = "insert"
    /\ handleDatabaseError("moveAppToFolder").threw
    /\ calls' = [calls EXCEPT ![p] = Done(calls[p], 500, "Failed to move app to folder")]
    /\ UNCHANGED storeVars

\* worker p has inserted a folder of user u: the creates of u that stand
\* between their MAX query and their INSERT have been overtaken
OvertakeCreate(p, u, c) ==
    [q \in Workers |->
        IF q = p THEN c
        ELSE IF calls[q].pc = "insertFolder" /\ calls[q].u = u
        THEN [calls[q] EXCEPT !.raced = TRUE]
        ELSE calls[q]]

\* POST /api/folders statement by statement: the handler's validation,
\* generateId(), and the MAX query of the service with nextOrder computed
CreateBegin(p, u, body) ==
    /\ calls[p].pc \in {"idle", "done"}
    /\ LET c == [IdleCall EXCEPT !.op = "createFolder", !.u = u]
       IN  IF NameMissing(body.name)
           THEN /\ calls' = [calls EXCEPT ![p] = Done(c, 400, "Folder name is required")]
                /\ UNCHANGED nextId
           ELSE IF NameTooLong(body.name)
           THEN /\ calls' = [calls EXCEPT ![p] =
                        Done(c, 400, "Folder name must be 50 characters or less")]
                /\ UNCHANGED nextId
           ELSE /\ calls' = [calls EXCEPT ![p] =
                        [c EXCEPT !.pc = "insertFolder",
                                  !.folderId = Some(nextId),
                                  !.name = Trim(Val(body.name)),
                                  !.nextOrder = MaxOrder(DB, u) + 1]]
                /\ nextId' = nextId + 1
    /\ UNCHANGED <<folders, appFolders, apps, clock, last>>

\* await this.database.insert(folders).values(newFolder)
CreateInsert(p) ==
    /\ calls[p].pc = "insertFolder"
    /\ folders' = folders \cup
            {[id |-> Val(calls[p].folderId), userId |-> calls[p].u,
              name |-> calls[p].name, description |-> None, color |-> None, icon |-> None,
              order |-> calls[p].nextOrder, createdAt |-> clock, updatedAt |-> clock]}
    /\ calls' = OvertakeCreate(p, calls[p].u, [calls[p] EXCEPT !.pc = "selectCreated"])
    /\ UNCHANGED <<appFolders, apps, nextId, clock, last>>

\* the created row is read back, and the handler reads it with its app count
CreateSelect(p) ==
    /\ calls[p].pc = "selectCreated"
    /\ LET createdFolder == SelectFolder(DB, Val(calls[p].folderId))
       IN  calls' = [calls EXCEPT ![p] =
                IF IsSome(createdFolder)
                THEN Done(calls[p], 200, "")
                ELSE Done(calls[p], 500, "Failed to create folder")]
    /\ UNCHANGED storeVars

\* DELETE /api/folders/:id statement by statement: the handler up to the
\* ownership check of the service
DeleteBegin(p, u, folderId) ==
    /\ calls[p].pc \in {"idle", "done"}
    /\ LET c == [IdleCall EXCEPT !.op = "deleteFolder", !.u = u,
                                 !.folderId = Some(folderId)]
       IN  calls' = [calls EXCEPT ![p] =
                IF ~IsSome(getFolderById(DB, folderId, u))
                THEN Done(c, 404, "Folder not found")
                ELSE [c EXCEPT !.pc = "deleteAssociations"]]
    /\ UNCHANGED storeVars

\* await this.database.delete(appFolders).where(eq(appFolders.folderId, folderId))
DeleteAssociations(p) ==
    /\ calls[p].pc = "deleteAssociations"
    /\ Commit(DeleteAppFoldersOfFolder(DB, Val(calls[p].folderId)))
    /\ calls' = [calls EXCEPT ![p] =
            [calls[p] EXCEPT !.pc = "deleteRow",
                             !.removed = AppCount(DB, Val(calls[p].folderId))]]
    /\ UNCHANGED <<clock, last>>

\* await this.database.delete(folders).where(and(...)), then return true
DeleteRow(p) ==
    /\ calls[p].pc = "deleteRow"
    /\ Commit(DeleteFolderRowCascade(DB, Val(calls[p].folderId), calls[p].u))
    /\ calls' = [calls EXCEPT ![p] = Done(calls[p], 200, "Folder deleted successfully")]
    /\ UNCHANGED <<clock, last>>

----------------------------------------------------------------------------
(* useStatusTracker.  Date.dateNow() is the clock dateNow, advanced by one  *)
(* at each call of the hook; the random suffix of an activity id is left     *)
(* out.                                                                      *)

MAX_ACTIVITIES == 50

\* the longest unknown message type that is still logged
MaxTypeLength == 50

Msg(type) ==
    [type |-> type, message |-> "", totalFiles |-> 0, filePath |-> "",
     error |-> "", count |-> 0, tool |-> None]

Activity(type, message, status) == [type |-> type, message |-> message, status |-> status]

\* mutant: the default branch logs a type of any length
DefaultCase_NoLengthCheck(m) == Some(Activity(m.type, "Event: " \o m.type, "info"))

\* default: if (message.type.length <= 50) addActivity(type, `Event: ${type}`, 'info')
DefaultCase(m) ==
    IF Len(m.type) <= MaxTypeLength
    THEN Some(Activity(m.type, "Event: " \o m.type, "info"))
    ELSE None

\* the switch of trackWebSocketMessage: the addActivity call a message leads
\* to, or None
Dispatch(m) ==
    CASE m.type = "generation_started" ->
            Some(Activity(m.type, "Starting code generation (" \o ToString(m.totalFiles)
                                   \o " files)", "active"))
      [] m.type \in {"phase_generating", "phase_implementing", "phase_validating"} ->
            Some(Activity(m.type, m.message, "active"))
      [] m.type \in {"phase_generated", "phase_implemented", "phase_validated"} ->
            Some(Activity(m.type, m.message, "completed"))
      [] m.type = "file_generating" ->
            Some(Activity(m.type, "Generating: " \o m.filePath, "active"))
      [] m.type = "file_generated" ->
            Some(Activity(m.type, "Completed: " \o m.filePath, "completed"))
      [] m.type = "file_regenerating" ->
            Some(Activity(m.type, "Regenerating: " \o m.filePath, "active"))
      [] m.type = "file_regenerated" ->
            Some(Activity(m.type, "Regenerated: " \o m.filePath, "completed"))
      [] m.type = "deployment_started" ->
            Some(Activity(m.type, "Deploying to preview sandbox", "active"))
      [] m.type = "deployment_completed" ->
            Some(Activity(m.type, "Preview deployment completed", "completed"))
      [] m.type = "deployment_failed" ->
            Some(Activity(m.type, "Deployment failed: " \o m.message, "error"))
      [] m.type = "code_reviewing" ->
            Some(Activity(m.type, "Reviewing generated code", "active"))
      [] m.type = "code_reviewed" ->
            Some(Activity(m.type, "Code review completed", "completed"))
      [] m.type = "generation_complete" ->
            Some(Activity(m.type, "Code generation completed", "completed"))
      [] m.type = "generation_stopped" ->
            Some(Activity(m.type, "Code generation stopped", "info"))
      [] m.type = "generation_resumed" ->
            Some(Activity(m.type, "Code generation resumed", "active"))
      [] m.type = "cloudflare_deployment_started" ->
            Some(Activity(m.type, "Deploying to Cloudflare Workers", "active"))
      [] m.type = "cloudflare_deployment_completed" ->
            Some(Activity(m.type, "Cloudflare deployment completed", "completed"))
      [] m.type = "cloudflare_deployment_error" ->
            Some(Activity(m.type, "Deployment error: " \o m.error, "error"))
      [] m.type = "runtime_error_found" ->
            Some(Activity(m.type, "Runtime errors detected (" \o ToString(m.count)
                                   \o ")", "error"))
      [] m.type = "deterministic_code_fix_started" ->
            Some(Activity(m.type, "Fixing code issues", "active"))
      [] m.type = "deterministic_code_fix_completed" ->
            Some(Activity(m.type, "Code fixes applied", "completed"))
      [] m.type = "conversation_response" ->
            IF ~IsSome(m.tool) THEN None
            ELSE IF Val(m.tool).status = "start"
            THEN Some(Activity("tool_start", "Running tool: " \o Val(m.tool).name, "active"))
            ELSE IF Val(m.tool).status = "success"
            THEN Some(Activity("tool_success", "Tool completed: " \o Val(m.tool).name,
                               "completed"))
            ELSE IF Val(m.tool).status = "error"
            THEN Some(Activity("tool_error", "Tool failed: " \o Val(m.tool).name, "error"))
            ELSE None
      [] m.type = "error" -> Some(Activity(m.type, m.error, "error"))
      [] m.type = "rate_limit_error" -> Some(Activity(m.type, "Rate limit exceeded", "error"))
      [] m.type \in {"cf_agent_state", "file_chunk_generated"} -> None
      [] OTHER -> DefaultCase(m)

\* mutant: updated.slice(0, MAX_ACTIVITIES), which keeps the oldest entries
KeepLast_KeepFirst(updated) ==
    IF Len(updated) > MAX_ACTIVITIES
    THEN SubSeq(updated, 1, MAX_ACTIVITIES)
    ELSE updated

\* updated.length > MAX_ACTIVITIES ? updated.slice(-MAX_ACTIVITIES) : updated
KeepLast(updated) ==
    IF Len(updated) > MAX_ACTIVITIES
    THEN SubSeq(updated, Len(updated) - MAX_ACTIVITIES + 1, Len(updated))
    ELSE updated

\* the StatusActivity addActivity builds at time t
Entry(a, t) ==
    [timestamp |-> t, type |-> a.type, message |-> a.message, status |-> a.status]

\* useStatusTracker.addActivity, called at time t
addActivity(a, t) ==
    /\ activities' = KeepLast(Append(activities, Entry(a, t)))
    /\ lastMessageTimestamp' = t
    /\ logged' = Append(logged, Entry(a, t))

\* a direct call of addActivity
AddActivity(a) ==
    /\ dateNow' = dateNow + 1
    /\ addActivity(a, dateNow')
    /\ UNCHANGED storeVars

\* mutant: the timestamp is set by addActivity only
TrackWebSocketMessage_StampOnActivity(m) ==
    /\ dateNow' = dateNow + 1
    /\ IF IsSome(Dispatch(m))
       THEN addActivity(Val(Dispatch(m)), dateNow')
       ELSE UNCHANGED <<lastMessageTimestamp, activities, logged>>
    /\ UNCHANGED storeVars

\* useStatusTracker.trackWebSocketMessage
TrackWebSocketMessage(m) ==
    /\ dateNow' = dateNow + 1
    /\ IF IsSome(Dispatch(m))
       THEN addActivity(Val(Dispatch(m)), dateNow')
       ELSE /\ lastMessageTimestamp' = dateNow'
            /\ UNCHANGED <<activities, logged>>
    /\ UNCHANGED storeVars

PhaseGenerating == [Msg("phase_generating") EXCEPT !.message = "Generating phase"]

LongType == "a_message_type_whose_name_is_longer_than_fifty_characters"

\* unknown types of exactly 50 and 51 characters
Type50 == "unknown_type_of_exactly_fifty_characters_123456789"

Type51 == "unknown_type_of_exactly_fifty_characters_1234567890"

\* messages of the other kinds: logged from the table with each status,
\* suppressed, unknown and short, unknown and long, a tool event, a
\* conversation response without a tool
MixedMessages ==
    { [Msg("phase_generated") EXCEPT !.message = "Phase done"],
      [Msg("deployment_failed") EXCEPT !.message = "timeout"],
      Msg("generation_stopped"),
      Msg("cf_agent_state"),
      Msg("file_chunk_generated"),
      Msg("ping"),
      Msg(LongType),
      Msg(Type50),
      Msg(Type51),
      [Msg("conversation_response") EXCEPT
          !.tool = Some([name |-> "deploy", status |-> "start"])],
      Msg("conversation_response") }

\* addActivity(type, message) with the default status
DirectActivities == { Activity("custom", "note", "info") }

NextTracker ==
    \/ \E m \in MixedMessages : dateNow < MaxMixed /\ TrackWebSocketMessage(m)
    \/ \E a \in DirectActivities : dateNow < MaxMixed /\ AddActivity(a)
    \/ dateNow < MaxCalls /\ TrackWebSocketMessage(PhaseGenerating)

----------------------------------------------------------------------------
(* FolderDialog in create mode, its onSave being createFolder of             *)
(* hooks/use-folders.ts: a POST /api/folders by the signed-in user.          *)

\* the longest folder name the dialog accepts
DialogMaxNameLength == 50

SessionUser == "u1"

EmptyForm == [name |-> <<>>]

\* the effect run when open becomes true (mode 'create')
DlgOpen ==
    /\ ~open
    /\ open' = TRUE
    /\ formData' = EmptyForm
    /\ error' = None
    /\ UNCHANGED <<isLoading, saving>>
    /\ UNCHANGED <<storeVars, trackerVars>>

\* the Cancel button: onOpenChange(false)
DlgCancel ==
    /\ open /\ ~isLoading
    /\ open' = FALSE
    /\ UNCHANGED <<formData, isLoading, error, saving>>
    /\ UNCHANGED <<storeVars, trackerVars>>

\* the Dialog's own onOpenChange(false): Escape, or a click outside; it is
\* not disabled while a save is under way
DlgDismiss ==
    /\ open
    /\ open' = FALSE
    /\ UNCHANGED <<formData, isLoading, error, saving>>
    /\ UNCHANGED <<storeVars, trackerVars>>

\* onChange of the name input
DlgChangeName(v) ==
    /\ open /\ ~isLoading
    /\ formData' = [formData EXCEPT !.name = v]
    /\ UNCHANGED <<open, isLoading, error, saving>>
    /\ UNCHANGED <<storeVars, trackerVars>>

\* FolderDialog.handleSave up to its await
DlgSubmit ==
    /\ open /\ ~isLoading
    /\ IF Trim(formData.name) = <<>>
       THEN /\ error' = Some("Folder name is required")
            /\ UNCHANGED <<isLoading, saving>>
       ELSE IF Len(formData.name) > DialogMaxNameLength
       THEN /\ error' = Some("Folder name must be 50 characters or less")
            /\ UNCHANGED <<isLoading, saving>>
       ELSE /\ isLoading' = TRUE
            /\ error' = None
            /\ saving' = Some([name |-> Trim(formData.name)])
    /\ UNCHANGED <<open, formData>>
    /\ UNCHANGED <<storeVars, trackerVars>>

\* the request of onSave is handled by the server and handleSave resumes:
\* onOpenChange(false) when createFolder resolved, setError when it threw
DlgSaveSettles ==
    /\ IsSome(saving)
    /\ HCreateFolder(SessionUser, [name |-> Some(Val(saving).name), description |-> None,
                                   color |-> None, icon |-> None])
    /\ IF last'.status = 200
       THEN /\ open' = FALSE
            /\ UNCHANGED error
       ELSE /\ error' \in { Some(last'.message),
                            Some("Failed to create folder: " \o last'.message) }
            /\ UNCHANGED open
    /\ isLoading' = FALSE
    /\ saving' = None
    /\ UNCHANGED formData
    /\ UNCHANGED trackerVars

\* mutant: onOpenChange(false) is called in the finally block
DlgSaveFails_Closes ==
    /\ IsSome(saving)
    /\ error' = Some("Failed to create folder: Network error")
    /\ isLoading' = FALSE
    /\ saving' = None
    /\ open' = FALSE
    /\ UNCHANGED formData
    /\ UNCHANGED <<storeVars, trackerVars>>

\* the request of onSave fails before it reaches the server
DlgSaveFails ==
    /\ IsSome(saving)
    /\ error' = Some("Failed to create folder: Network error")
    /\ isLoading' = FALSE
    /\ saving' = None
    /\ UNCHANGED <<open, formData>>
    /\ UNCHANGED <<storeVars, trackerVars>>

----------------------------------------------------------------------------
(* Requests the exploration sends *)

NameA == <<97>>

NameB == <<98>>

Blank == <<32>>

FolderIdParams == 0..MaxFolders

NoUpdate ==
    [name |-> None, description |-> None, color |-> None, icon |-> None,
     order |-> None]

OrderInputs == {1}

CreateBody(name) ==
    [name |-> name, description |-> None, color |-> None, icon |-> None]

\* Spec: every handler; folders are created under one name
CreateBodies == { CreateBody(n) : n \in {None, Some(NameA)} }

\* a request that sets nothing, one with a blank name, requests that set the order
UpdateBodies ==
    {NoUpdate, [NoUpdate EXCEPT !.name = Some(Blank)]}
        \cup { [NoUpdate EXCEPT !.order = Some(o)] : o \in OrderInputs }

\* "a9" is the id of no app
MoveBodies ==
    [appId : {"a1", "a2"}, folderId : {None} \cup { Some(f) : f \in 1..MaxFolders }]
        \cup [appId : {"", "a9"}, folderId : {None, Some(1)}]

Init ==
    /\ folders = {}
    /\ appFolders = {}
    /\ apps = InitApps
    /\ nextId = 1
    /\ clock = 0
    /\ last = NoCall
    /\ activities = <<>>
    /\ lastMessageTimestamp = 0
    /\ dateNow = 0
    /\ logged = <<>>
    /\ open = FALSE
    /\ formData = EmptyForm
    /\ isLoading = FALSE
    /\ error = None
    /\ saving = None
    /\ calls = [p \in Workers |-> IdleCall]

Next ==
    \E u \in Users :
        \/ \E body \in CreateBodies : nextId <= MaxFolders /\ HCreateFolder(u, body)
        \/ \E id \in FolderIdParams : HGetFolder(u, id)
        \/ \E id \in 1..MaxFolders, body \in UpdateBodies : HUpdateFolder(u, id, body)
        \/ HUpdateFolder(u, NoId, NoUpdate)
        \/ \E id \in FolderIdParams : HDeleteFolder(u, id)
        \/ \E body \in MoveBodies : HMoveAppToFolder(u, body)
        \/ \E id \in FolderIdParams : HGetAppsInFolder(u, id)

Spec == Init /\ [][Next /\ UNCHANGED <<trackerVars, dialogVars, calls>>]_vars

SpecTracker == Init /\ [][NextTracker /\ UNCHANGED <<dialogVars, calls>>]_vars

\* SpecList: the requests that decide a folder's place in the listing, with
\* two names and order updates
ListCreateBodies == { CreateBody(n) : n \in {None, Some(NameA), Some(NameB)} }

ListUpdateBodies ==
    {[NoUpdate EXCEPT !.name = Some(NameB)]}
        \cup { [NoUpdate EXCEPT !.order = Some(o)] : o \in OrderInputs }

NextList ==
    \E u \in Users :
        \/ \E body \in ListCreateBodies :
              nextId <= MaxListFolders /\ HCreateFolder(u, body)
        \/ \E id \in 1..MaxListFolders, body \in ListUpdateBodies :
              HUpdateFolder(u, id, body)
        \/ \E id \in 1..MaxListFolders : HDeleteFolder(u, id)

SpecList == Init /\ [][NextList /\ UNCHANGED <<trackerVars, dialogVars, calls>>]_vars

\* SpecDialog: the dialog, and create requests sent to the server directly,
\* with names around the length limit
Name50 == Rep(97, 50)

DialogNames ==
    { <<>>, Blank, NameA,
      Name50, Blank \o Rep(97, 49),
      Rep(97, 51), Name50 \o Blank, Rep(32, 51) }

DialogCreateBodies == { CreateBody(n) : n \in {None} \cup { Some(v) : v \in DialogNames } }

NextDialog ==
    \/ DlgOpen
    \/ DlgCancel
    \/ DlgDismiss
    \/ \E v \in DialogNames : DlgChangeName(v)
    \/ DlgSubmit
    \/ nextId <= MaxFolders /\ DlgSaveSettles
    \/ DlgSaveFails
    \/ \E body \in DialogCreateBodies :
          /\ nextId <= MaxFolders
          /\ HCreateFolder(SessionUser, body)
          /\ UNCHANGED <<trackerVars, dialogVars>>

SpecDialog == Init /\ [][NextDialog /\ UNCHANGED calls]_vars

\* SpecNames: create and update requests whose names are missing, blank,
\* padded with spaces, or around the length limit
NameUpdateBodies == { [NoUpdate EXCEPT !.name = Some(v)] : v \in DialogNames }

NextNames ==
    \E u \in Users :
        \/ \E body \in DialogCreateBodies : nextId <= MaxFolders /\ HCreateFolder(u, body)
        \/ \E id \in 1..MaxFolders, body \in NameUpdateBodies : HUpdateFolder(u, id, body)

SpecNames == Init /\ [][NextNames /\ UNCHANGED <<trackerVars, dialogVars, calls>>]_vars

\* SpecUpdate: time passes, folders are created, app a1 is filed in folder 1,
\* and folder 1 is updated with requests that provide no field, one field, or
\* all of them
Tick ==
    /\ clock < MaxClock
    /\ clock' = clock + 1
    /\ UNCHANGED <<folders, appFolders, apps, nextId, last>>

\* " b", " d": values with a leading space; "c" and "i" stand for a colour
\* and an icon identifier
FieldUpdateBodies ==
    { NoUpdate,
      [NoUpdate EXCEPT !.name = Some(<<32, 98>>)],
      [NoUpdate EXCEPT !.description = Some(<<32, 100>>)],
      [NoUpdate EXCEPT !.color = Some("c")],
      [NoUpdate EXCEPT !.order = Some(7)],
      [name |-> Some(<<32, 98>>), description |-> Some(<<32, 100>>),
       color |-> Some("c"), icon |-> Some("i"), order |-> Some(7)] }

NextUpdate ==
    \/ Tick
    \/ \E u \in Users :
          \/ nextId <= MaxFolders /\ HCreateFolder(u, CreateBody(Some(NameA)))
          \/ \E body \in FieldUpdateBodies : HUpdateFolder(u, 1, body)
    \/ HMoveAppToFolder("u1", [appId |-> "a1", folderId |-> Some(1)])

SpecUpdate == Init /\ [][NextUpdate /\ UNCHANGED <<trackerVars, dialogVars, calls>>]_vars

\* SpecFrame: time passes, folders are created, app a1 is filed and unfiled,
\* and either user updates or deletes folder 1 and moves apps, also apps and
\* folders that are not theirs or do not exist
FrameUpdateBodies ==
    { NoUpdate, [NoUpdate EXCEPT !.order = Some(7)] }

FrameMoveBodies ==
    [appId : {"a1", "a9"}, folderId : {None, Some(1)}]

NextFrame ==
    \/ Tick
    \/ \E u \in Users :
          \/ nextId <= MaxFolders /\ HCreateFolder(u, CreateBody(Some(NameA)))
          \/ \E body \in FrameUpdateBodies : HUpdateFolder(u, 1, body)
          \/ HDeleteFolder(u, 1)
          \/ \E body \in FrameMoveBodies : HMoveAppToFolder(u, body)

SpecFrame == Init /\ [][NextFrame /\ UNCHANGED <<trackerVars, dialogVars, calls>>]_vars

\* SpecOwners: each user owns one app; either user creates and deletes
\* folders and moves either app to any folder or to none
OwnersApps ==
    { [id |-> "a1", userId |-> "u1", updatedAt |-> 1],
      [id |-> "a2", userId |-> "u2", updatedAt |-> 2] }

InitOwners ==
    /\ folders = {}
    /\ appFolders = {}
    /\ apps = OwnersApps
    /\ nextId = 1
    /\ clock = 0
    /\ last = NoCall
    /\ activities = <<>>
    /\ lastMessageTimestamp = 0
    /\ dateNow = 0
    /\ logged = <<>>
    /\ open = FALSE
    /\ formData = EmptyForm
    /\ isLoading = FALSE
    /\ error = None
    /\ saving = None
    /\ calls = [p \in Workers |-> IdleCall]

NextOwners ==
    \E u \in Users :
        \/ nextId <= MaxFolders /\ HCreateFolder(u, CreateBody(Some(NameA)))
        \/ \E id \in 1..MaxFolders : HDeleteFolder(u, id)
        \/ \E body \in MoveBodies : HMoveAppToFolder(u, body)

SpecOwners ==
    InitOwners /\ [][NextOwners /\ UNCHANGED <<trackerVars, dialogVars, calls>>]_vars

\* SpecMoveDelete: folders are created, and two workers handle move requests
\* for app a1 and delete requests statement by statement
NextMoveDelete ==
    \/ \E body \in CreateBodies :
          nextId <= MaxFolders /\ HCreateFolder("u1", body) /\ UNCHANGED calls
    \/ \E p \in Workers :
          \/ \E f \in 1..MaxFolders :
                MoveBegin(p, "u1", [appId |-> "a1", folderId |-> Some(f)])
          \/ MoveVerifyFolder(p)
          \/ MoveDelete(p)
          \/ MoveInsert(p)
          \/ \E u \in Users, f \in 1..MaxFolders : DeleteBegin(p, u, f)
          \/ DeleteAssociations(p)
          \/ DeleteRow(p)

SpecMoveDelete == Init /\ [][NextMoveDelete /\ UNCHANGED <<trackerVars, dialogVars>>]_vars

\* SpecCreate: two workers handle create requests of both users statement by
\* statement; nothing updates an order
NextCreate ==
    \E p \in Workers :
        \/ \E u \in Users, body \in CreateBodies :
              nextId <= MaxCreated /\ CreateBegin(p, u, body)
        \/ CreateInsert(p)
        \/ CreateSelect(p)

SpecCreate == Init /\ [][NextCreate /\ UNCHANGED <<trackerVars, dialogVars>>]_vars

\* SpecMove: folders are created, and two workers handle move requests for
\* app a1 statement by statement
RaceMoveBodies ==
    [appId : {"a1"}, folderId : {None} \cup { Some(f) : f \in 1..MaxFolders }]
        \cup {[appId |-> "", folderId |-> None]}

NextMove ==
    \/ \E u \in Users, body \in CreateBodies :
          nextId <= MaxFolders /\ HCreateFolder(u, body) /\ UNCHANGED calls
    \/ \E p \in Workers :
          \/ \E u \in Users, body \in RaceMoveBodies : MoveBegin(p, u, body)
          \/ MoveUnfile(p)
          \/ MoveVerifyFolder(p)
          \/ MoveDelete(p)
          \/ MoveInsert(p)
          \/ MoveInsertFails(p)

SpecMove == Init /\ [][NextMove /\ UNCHANGED <<trackerVars, dialogVars>>]_vars

----------------------------------------------------------------------------
(* Properties of the folder service and controller *)

\* the database after the step
DBAfter == [folders |-> folders', appFolders |-> appFolders', apps |-> apps',
            nextId |-> nextId']

AppIds == { a.id : a \in InitApps }

OwnsApp(u, a) == \E x \in apps : x.id = a /\ x.userId = u

OwnsFolder(u, f) == \E x \in folders : x.id = f /\ x.userId = u

MoveTo(a, target) == [appId |-> a, folderId |-> target]

StoreUnchanged ==
    folders' = folders /\ appFolders' = appFolders /\ apps' = apps /\ nextId' = nextId

\* the association rows that reference folder id
Referencing(id) == { af \in appFolders : af.folderId = id }

\* C1: whatever requests have been handled one after the other, every
\* application has at most one row in the app-folder association set.
C1_AtMostOneFolderPerApp ==
    \A a \in AppIds : Cardinality({ af \in appFolders : af.appId = a }) <= 1

\* a move has just replaced an existing association, and every app is filed
C1_Witness ==
    /\ last.op = "moveAppToFolder" /\ last.at = "moved" /\ last.removed = 1
    /\ \A a \in AppIds : Cardinality({ af \in appFolders : af.appId = a }) = 1

\* C2: moving app A (owned by U) to a folder of U returns true and leaves A
\* exactly one association, the one to that folder; in particular a second
\* move, to folder G, of an app a first move put in folder F ends with
\* getAppFolder(A) = G and a single row.
C2_MoveThenMove ==
    [][\A u \in Users, a \in AppIds, g \in 1..MaxFolders :
          (/\ last'.op = "moveAppToFolder"
           /\ OwnsApp(u, a) /\ OwnsFolder(u, g)
           /\ HMoveAppToFolder(u, MoveTo(a, Some(g))))
          => /\ last'.ok /\ last'.status = 200
             /\ { af \in appFolders' : af.appId = a } = { [appId |-> a, folderId |-> g] }
             /\ getAppFolder(DBAfter, a) = { Some(g) }
             /\ (\E f \in 1..MaxFolders : [appId |-> a, folderId |-> f] \in appFolders)
                    => last'.removed = 1]_vars

\* a successful move has just taken an app out of one folder into folder 2,
\* while folder 1 still exists with the same owner
C2_Witness ==
    /\ last.op = "moveAppToFolder" /\ last.at = "moved" /\ last.removed = 1
    /\ [appId |-> "a1", folderId |-> 2] \in appFolders
    /\ OwnsFolder("u1", 1) /\ OwnsFolder("u1", 2)
    /\ getAppFolder(DB, "a1") = { Some(2) }

\* C3: moveAppToFolder(A, null, U) for an app of U returns true and leaves A
\* no association, whatever it had; the same call made again returns true and
\* leaves the store as the first call left it.
C3_UnfileIdempotent ==
    [][\A u \in Users, a \in AppIds :
          (/\ last'.op = "moveAppToFolder"
           /\ OwnsApp(u, a)
           /\ HMoveAppToFolder(u, MoveTo(a, None)))
          => /\ last'.ok /\ last'.status = 200
             /\ { af \in appFolders' : af.appId = a } = {}
             /\ { af \in appFolders' : af.appId /= a } = { af \in appFolders : af.appId /= a }
             /\ folders' = folders
             /\ LET again == moveAppToFolder(DBAfter, a, None, u)
                IN  again.ret /\ again.db = DBAfter]_vars

\* an unfile request has just removed an association
C3_Witness ==
    /\ last.op = "moveAppToFolder" /\ last.at = "unfiled" /\ last.removed = 1
    /\ last.ok

\* C4: moving an app of U to a folder that is not U's (another user's, or no
\* folder at all) returns false and changes no association; moving it to a
\* folder of U returns true.
C4_MoveToForeignFolder ==
    [][\A u \in Users, a \in AppIds, f \in 1..MaxFolders :
          (/\ last'.op = "moveAppToFolder"
           /\ OwnsApp(u, a)
           /\ HMoveAppToFolder(u, MoveTo(a, Some(f))))
          => IF OwnsFolder(u, f)
             THEN last'.ok
             ELSE /\ ~last'.ok /\ last'.status = 404
                  /\ appFolders' = appFolders
                  /\ folders' = folders]_vars

\* every folder id in use names a folder of the other user, the apps are
\* filed, and a move has just been refused at the folder ownership check
C4_Witness ==
    /\ last.op = "moveAppToFolder" /\ last.at = "folder not owned"
    /\ \E f \in folders : f.userId = "u2"
    /\ \A a \in AppIds : \E af \in appFolders : af.appId = a

\* C5: after deleteFolder(F, U) returns true no association row references F
\* and getAppFolder returns null for every app that was in F.
C5_DeleteRemovesAssociations ==
    [][\A u \in Users, f \in 1..MaxFolders :
          (/\ last'.op = "deleteFolder"
           /\ OwnsFolder(u, f)
           /\ HDeleteFolder(u, f))
          => /\ last'.ok /\ last'.status = 200
             /\ \A af \in appFolders' : af.folderId /= f
             /\ \A a \in AppIds :
                    [appId |-> a, folderId |-> f] \in appFolders
                        => getAppFolder(DBAfter, a) = { None }
             /\ last'.removed = Cardinality({ af \in appFolders : af.folderId = f })]_vars

\* a delete has just removed a folder that held both apps
C5_Witness ==
    /\ last.op = "deleteFolder" /\ last.ok /\ last.removed = 2
    /\ \A a \in AppIds : getAppFolder(DB, a) = { None }

\* the folder a successful create request has just inserted
Created == CHOOSE f \in folders' : f.id = last'.newId

\* the folders u owns
FoldersOf(u) == { f \in folders : f.userId = u }

\* the folders of u carry the orders 0, 1, 2, ... in the order they were
\* created in (ids are handed out in creation order)
InCreationOrder(u) ==
    \A f \in FoldersOf(u) :
        f.order = Cardinality({ g \in FoldersOf(u) : g.id < f.id })

\* C6: folders created for a user one after the other get the orders 0, 1,
\* 2, ...: the first folder of a user who has none gets 0, a folder created
\* right after another one of the same user gets that one's order plus 1,
\* a folder created while the user's folders carry 0..k-1 in creation order
\* gets k, the order of the user's latest folder plus 1, whatever other users
\* created meanwhile, and in every case the new order is one more than the
\* largest order among the user's own folders.
C6_CreateOrderSequence ==
    [][\A u \in Users, body \in ListCreateBodies :
          (/\ last'.op = "createFolder" /\ last'.status = 200
           /\ HCreateFolder(u, body))
          => /\ Created.userId = u
             /\ (\A f \in folders : f.userId /= u) => Created.order = 0
             /\ \A f \in folders : f.userId = u => f.order < Created.order
             /\ \/ Created.order = 0
                \/ \E f \in folders : f.userId = u /\ f.order = Created.order - 1
             /\ (/\ last.op = "createFolder" /\ last.status = 200
                 /\ \E f \in folders : f.id = last.newId /\ f.userId = u)
                    => \E f \in folders :
                          f.id = last.newId /\ Created.order = f.order + 1
             /\ InCreationOrder(u)
                    => /\ Created.order = Cardinality(FoldersOf(u))
                       /\ \A f \in FoldersOf(u) :
                              (\A g \in FoldersOf(u) : g.id <= f.id)
                                  => Created.order = f.order + 1]_vars

\* the second of two folders created in a row for u1 (orders 0 and 1), while
\* the other user owns nothing
C6_Witness ==
    /\ last.op = "createFolder" /\ last.status = 200 /\ last.newId = 2
    /\ \E f, g \in folders :
          /\ f.id = 1 /\ g.id = 2 /\ f.userId = "u1" /\ g.userId = "u1"
          /\ f.order = 0 /\ g.order = 1

\* r lists rows without repeating one
NoRepeat(r) == \A i, j \in DOMAIN r : r[i].id = r[j].id => i = j

\* C7: getUserFolders(U) returns exactly the folders owned by U, each once, by
\* order descending and, for equal orders, by name ascending.
C7_ListingSorted ==
    \A u \in Users : \A r \in getUserFolders(DB, u) :
        /\ { r[i].id : i \in DOMAIN r } = { f.id : f \in { g \in folders : g.userId = u } }
        /\ NoRepeat(r)
        /\ \A i \in DOMAIN r : \E f \in folders :
              f.id = r[i].id /\ f.userId = u /\ f.name = r[i].name /\ f.order = r[i].order
        /\ \A i, j \in DOMAIN r :
              i < j => \/ r[i].order > r[j].order
                       \/ r[i].order = r[j].order /\ ~StrLess(r[j].name, r[i].name)

\* u1 owns two folders with the same order and different names, the one
\* created first having the later name
C7_Witness ==
    \E f, g \in folders :
        /\ f.userId = "u1" /\ g.userId = "u1" /\ f.id < g.id
        /\ f.order = g.order /\ StrLess(g.name, f.name)

\* a folder with this id exists and belongs to someone other than u
ForeignFolder(u, id) == \E f \in folders : f.id = id /\ f.userId /= u

NoSuchFolder(id) == \A f \in folders : f.id /= id

NotFound == last'.status = 404 /\ last'.message = "Folder not found"

\* the step is a get, an update with a request in bodies, or a delete, by u
\* of folder id
Addresses(u, id, bodies) ==
    \/ last'.op = "getFolder" /\ HGetFolder(u, id)
    \/ last'.op = "deleteFolder" /\ HDeleteFolder(u, id)
    \/ last'.op = "updateFolder" /\ \E body \in bodies : HUpdateFolder(u, id, body)

\* C8 as stated: get, update and delete of a folder id owned by another user
\* answer 404 'Folder not found' and never 200, 400 or 500, whatever the
\* update request holds.
C8_Original ==
    [][\A u \in Users, id \in 1..MaxFolders :
          (ForeignFolder(u, id) /\ Addresses(u, id, UpdateBodies)) => NotFound]_vars

ValidUpdate(body) ==
    ~IsSome(body.name)
        \/ (Len(Trim(Val(body.name))) > 0 /\ Len(Val(body.name)) <= MaxNameLength)

\* C8 amended: get and delete of a folder id owned by another user, and update
\* of it with a request whose name passes validation, answer 404 'Folder not
\* found', as they do for an id that does not exist, and leave the store as it
\* was; an update whose name fails validation is answered 400 for such an id.
C8_NotOwnedIsNotFound ==
    [][\A u \in Users, id \in 1..MaxFolders :
          (ForeignFolder(u, id) \/ NoSuchFolder(id))
          => /\ Addresses(u, id, { b \in UpdateBodies : ValidUpdate(b) }) => NotFound
             /\ Addresses(u, id, UpdateBodies)
                  => /\ last'.status \in {404, 400}
                     /\ folders' = folders /\ appFolders' = appFolders]_vars

\* every folder id the requests use names a folder of u2, so the 404 just
\* given to an update by u1 was given for a folder of another user
C8_Witness ==
    /\ last.op = "updateFolder" /\ last.status = 404
    /\ \A id \in 1..MaxFolders : \E f \in folders : f.id = id /\ f.userId = "u2"

Min(a, b) == IF a < b THEN a ELSE b

\* C10: the activity log holds at most 50 entries, the most recent
\* min(n, 50) of the n activities logged so far, in arrival order; after 60
\* phase_generating messages it holds exactly 50, the ten oldest are gone, and
\* lastMessageTimestamp is the time of the 60th message.
C10_LastFiftyActivities ==
    /\ Len(activities) = Min(Len(logged), MAX_ACTIVITIES)
    /\ \A i \in 1..Len(activities) :
          activities[i] = logged[Len(logged) - Len(activities) + i]
    /\ (/\ dateNow = 60 /\ Len(logged) = 60
        /\ \A i \in 1..60 : logged[i].type = "phase_generating")
          => /\ Len(activities) = 50
             /\ \A i \in 1..50 : activities[i].timestamp = i + 10
             /\ lastMessageTimestamp = logged[60].timestamp
             /\ lastMessageTimestamp = 60

\* sixty phase_generating messages have been fed and nothing else
C10_Witness ==
    /\ dateNow = 60 /\ Len(logged) = 60
    /\ \A i \in 1..60 : logged[i].type = "phase_generating"
    /\ Len(activities) = 50 /\ activities[1] = logged[11]

\* C9: a create request whose name is longer than 50 characters is answered
\* 400 by the server and refused by the dialog without a call of onSave, and
\* no folder is created; a non-blank name of exactly 50 characters is accepted
\* by both, the dialog passing it on and the server creating the folder.
C9_NameLengthLimit ==
    [][/\ \A u \in Users, body \in DialogCreateBodies :
             (/\ last'.op = "createFolder" /\ IsSome(body.name)
              /\ HCreateFolder(u, body))
             => LET name == Val(body.name)
                IN  /\ Len(name) > 50
                        => /\ last'.status = 400
                           /\ folders' = folders /\ nextId' = nextId
                    /\ (Len(name) = 50 /\ Trim(name) /= <<>>)
                        => /\ last'.status = 200
                           /\ \E f \in folders' :
                                 /\ f \notin folders /\ f.id = last'.newId
                                 /\ f.name = Trim(name)
       /\ DlgSubmit
             => /\ Len(formData.name) > 50
                    => /\ saving' = None /\ ~isLoading'
                       /\ IsSome(error') /\ open'
                       /\ folders' = folders /\ nextId' = nextId
                /\ (Len(formData.name) = 50 /\ Trim(formData.name) /= <<>>)
                    => saving' = Some([name |-> Trim(formData.name)])]_vars

\* a folder named by 50 characters has been created, the server has then
\* refused a longer name, and so has the dialog
C9_Witness ==
    /\ \E f \in folders : Len(f.name) = 50
    /\ last.status = 400 /\ last.message = "Folder name must be 50 characters or less"
    /\ open /\ Len(formData.name) = 51
    /\ error = Some("Folder name must be 50 characters or less")

----------------------------------------------------------------------------
(* Properties of move requests whose statements interleave or fail *)

\* the association rows of app a
RowsOf(a) == { af \in appFolders : af.appId = a }

\* worker p's request is between its DELETE and its INSERT and this step ends it
InsertEnds(p) == calls[p].pc = "insert" /\ calls'[p].pc = "done"

\* C11: concurrent moves of the same app are not kept apart.  An INSERT that
\* no other request overtook leaves the app exactly one association, the one
\* asked for; an INSERT that was overtaken can leave it two, and that is the
\* only way an app comes to have two.  An app has none after two requests for
\* it both answered 200 only when one of them was an unfile.
C11_RaceBreaksOnePerApp ==
    /\ [](\A a \in AppIds :
            /\ Cardinality(RowsOf(a)) <= Cardinality(Workers)
            /\ (\A p \in Workers :
                    /\ calls[p].pc = "done" /\ calls[p].status = 200
                    /\ calls[p].appId = a /\ IsSome(calls[p].folderId))
                  => RowsOf(a) /= {})
    /\ [][\A p \in Workers :
            (InsertEnds(p) /\ calls'[p].status = 200 /\ MoveInsert(p))
            => LET a == calls[p].appId
                   row == [appId |-> a, folderId |-> Val(calls[p].folderId)]
               IN  /\ row \in appFolders'
                   /\ ~calls[p].raced => { af \in appFolders' : af.appId = a } = {row}
                   /\ Cardinality({ af \in appFolders' : af.appId = a }) = 2
                        => calls[p].raced]_vars

\* both requests have answered 200 and app a1 is in two folders
C11_Witness ==
    /\ \A p \in Workers : calls[p].pc = "done" /\ calls[p].status = 200
    /\ Cardinality(RowsOf("a1")) = 2

\* both requests have answered 200, one of them an unfile that wrote last, and
\* app a1, filed when the unfile began, is in no folder
C11_WitnessNone ==
    /\ \A p \in Workers : calls[p].pc = "done" /\ calls[p].status = 200
    /\ \E p \in Workers : IsSome(calls[p].folderId)
    /\ \E p \in Workers : calls[p].folderId = None /\ calls[p].removed = 1
    /\ RowsOf("a1") = {}

\* C12: a move to an owned folder is not atomic.  When its INSERT fails the
\* request ends in the error path (500, not a success), nothing is restored,
\* and - no other request having written the app's associations meanwhile -
\* the app is left with no association, the one it had being lost.
C12_FailedInsertUnfiles ==
    [][\A p \in Workers :
          (InsertEnds(p) /\ calls'[p].status /= 200)
          => /\ calls'[p].status = 500
             /\ calls'[p].message = "Failed to move app to folder"
             /\ appFolders' = appFolders /\ folders' = folders
             /\ ~calls[p].raced
                  => { af \in appFolders' : af.appId = calls[p].appId } = {}]_vars

\* a request whose DELETE removed the app's association has ended with 500,
\* no other request is under way, and the app is in no folder
C12_Witness ==
    \E p \in Workers :
        /\ calls[p].pc = "done" /\ calls[p].status = 500
        /\ calls[p].removed = 1 /\ ~calls[p].raced
        /\ \A q \in Workers \ {p} : calls[q].pc = "idle"
        /\ RowsOf(calls[p].appId) = {}

----------------------------------------------------------------------------
(* A failed save in the folder dialog *)

\* C20: a save the dialog's validation refuses calls onSave not at all, and
\* it, like a save whose onSave rejects, leaves the dialog as open as it was,
\* sets an error message, keeps the form data and leaves isLoading false; the
\* dialog is closed only by the user or by a save whose onSave resolved, and
\* onSave is only ever called with a valid name.
C20_FailedSaveKeepsDialog ==
    /\ [](IsSome(saving)
            => /\ isLoading
               /\ Len(Val(saving).name) > 0 /\ Len(Val(saving).name) <= 50)
    /\ [][(/\ open /\ ~isLoading
           /\ Trim(formData.name) = <<>> \/ Len(formData.name) > 50
           /\ DlgSubmit)
          => /\ open' /\ IsSome(error') /\ formData' = formData
             /\ ~isLoading' /\ saving' = None
             /\ StoreUnchanged]_vars
    /\ [][(IsSome(saving) /\ saving' = None /\ nextId' = nextId)
          => /\ open' = open /\ IsSome(error') /\ formData' = formData
             /\ ~isLoading'
             /\ StoreUnchanged]_vars
    /\ [][(open /\ ~open')
          => \/ /\ saving' = saving /\ isLoading' = isLoading
                /\ formData' = formData /\ error' = error
             \/ /\ IsSome(saving) /\ saving' = None /\ ~isLoading'
                /\ last'.op = "createFolder" /\ last'.status = 200
                /\ nextId' = nextId + 1]_vars

\* onSave has rejected: the dialog is open, shows the error, still holds the
\* 50 characters entered, and is no longer loading
C20_Witness ==
    /\ open /\ ~isLoading /\ saving = None
    /\ error = Some("Failed to create folder: Network error")
    /\ formData.name = Name50


\* the name is blank: empty, or whitespace only
BlankName(v) == \A i \in DOMAIN v : v[i] = 32

\* C19: every persisted folder name is non-empty, neither starts nor ends
\* with whitespace, and has at most 50 characters; a create request whose
\* name is missing, blank or longer than 50 characters, and an update request
\* whose name is blank or longer than 50 characters, is answered 400 and
\* changes nothing stored.
C19_PersistedNames ==
    /\ [](\A f \in folders :
            /\ Len(f.name) > 0 /\ Len(f.name) <= 50
            /\ f.name[1] /= 32 /\ f.name[Len(f.name)] /= 32)
    /\ [][\A u \in Users, body \in DialogCreateBodies :
            (/\ last'.op = "createFolder"
             /\ ~IsSome(body.name) \/ BlankName(Val(body.name)) \/ Len(Val(body.name)) > 50
             /\ HCreateFolder(u, body))
            => last'.status = 400 /\ StoreUnchanged]_vars
    /\ [][\A u \in Users, id \in 1..MaxFolders, body \in NameUpdateBodies :
            (/\ last'.op = "updateFolder"
             /\ BlankName(Val(body.name)) \/ Len(Val(body.name)) > 50
             /\ HUpdateFolder(u, id, body))
            => last'.status = 400 /\ StoreUnchanged]_vars

\* a folder whose name of 49 characters was sent with a space before it, a
\* folder renamed to a name of 50 characters, and an update just refused
C19_Witness ==
    /\ last.op = "updateFolder" /\ last.status = 400
    /\ \E f, g \in folders :
          /\ f.id = 1 /\ f.name = Rep(97, 49) /\ f.order = 0
          /\ g.id = 2 /\ g.name = Name50

----------------------------------------------------------------------------
(* The frame of deleteFolder *)

\* C18: a successful deleteFolder(F, U) deletes no application: the apps
\* table is unchanged, the apps that were in F have no association
\* afterwards, the associations of other folders stay, and F is the only
\* folder removed.
C18_DeleteKeepsApps ==
    [][\A u \in Users, f \in 1..MaxFolders :
          (/\ last'.op = "deleteFolder" /\ last'.status = 200
           /\ HDeleteFolder(u, f))
          => /\ apps' = apps
             /\ appFolders' = appFolders \ Referencing(f)
             /\ \A af \in Referencing(f) :
                   /\ \E a \in apps' : a.id = af.appId
                   /\ \A x \in appFolders' : x.appId /= af.appId
             /\ folders' = { x \in folders : x.id /= f }
             /\ nextId' = nextId]_vars

\* a folder holding one app has just been deleted; both apps exist, that one
\* unfiled, the other still in its folder
C18_Witness ==
    /\ last.op = "deleteFolder" /\ last.status = 200 /\ last.removed = 1
    /\ apps = InitApps
    /\ Cardinality(appFolders) = 1

----------------------------------------------------------------------------
(* Properties of the status tracker's dispatch *)

TrackedMessages == MixedMessages \cup {PhaseGenerating}

\* the case labels of the switch that log an activity or inspect the message
TableTypes ==
    { "generation_started", "phase_generating", "phase_implementing",
      "phase_validating", "phase_generated", "phase_implemented",
      "phase_validated", "file_generating", "file_generated",
      "file_regenerating", "file_regenerated", "deployment_started",
      "deployment_completed", "deployment_failed", "code_reviewing",
      "code_reviewed", "generation_complete", "generation_stopped",
      "generation_resumed", "cloudflare_deployment_started",
      "cloudflare_deployment_completed", "cloudflare_deployment_error",
      "runtime_error_found", "deterministic_code_fix_started",
      "deterministic_code_fix_completed", "conversation_response", "error",
      "rate_limit_error" }

Denylist == { "cf_agent_state", "file_chunk_generated" }

Statuses == { "active", "completed", "error", "info" }

\* C16: every message passed to trackWebSocketMessage sets the last-activity
\* timestamp to the time of that message, later than the one before, whether
\* or not the message adds an activity entry.
C16_EveryMessageStamps ==
    [][\A m \in TrackedMessages :
          (dateNow' = dateNow + 1 /\ TrackWebSocketMessage(m))
          => /\ lastMessageTimestamp' = dateNow'
             /\ lastMessageTimestamp' > lastMessageTimestamp]_vars

\* MaxMixed messages have been passed, none of them added an entry, and the
\* timestamp is the time of the last one
C16_Witness ==
    /\ dateNow = MaxMixed /\ logged = <<>>
    /\ lastMessageTimestamp = MaxMixed

\* C17: a message of a denylisted type adds no entry; a message whose type
\* the table does not know adds one entry, 'Event: <type>' with status info,
\* when the type has at most 50 characters and none when it has more; every
\* entry of the log has one of the four statuses.
C17_DenylistAndDefault ==
    /\ [](\A i \in DOMAIN activities : activities[i].status \in Statuses)
    /\ [][\A m \in MixedMessages :
            (dateNow' = dateNow + 1 /\ TrackWebSocketMessage(m))
            => /\ m.type \in Denylist
                    => activities' = activities /\ logged' = logged
               /\ (m.type \notin Denylist \cup TableTypes /\ Len(m.type) <= 50)
                    => /\ logged' = Append(logged,
                              [timestamp |-> dateNow', type |-> m.type,
                               message |-> "Event: " \o m.type, status |-> "info"])
                       /\ activities' = KeepLast(Append(activities,
                              [timestamp |-> dateNow', type |-> m.type,
                               message |-> "Event: " \o m.type, status |-> "info"]))
               /\ (m.type \notin Denylist \cup TableTypes /\ Len(m.type) > 50)
                    => activities' = activities /\ logged' = logged]_vars

\* the log holds the generic entry of an unknown type of exactly 50
\* characters, and a later message added nothing
C17_Witness ==
    /\ Len(Type50) = 50 /\ Len(Type51) = 51
    /\ \E i \in DOMAIN activities :
          /\ activities[i].message = "Event: " \o Type50
          /\ activities[i].status = "info"
          /\ activities[i].timestamp < lastMessageTimestamp
    /\ Len(logged) < dateNow

----------------------------------------------------------------------------
(* The frame of updateFolder *)

\* the value a field has after an update that provides v, or leaves it out
Updated(old, v) == IF IsSome(v) THEN Val(v) ELSE old

\* C15: an update of a folder the caller owns changes, in that folder, only
\* the fields the request provides (name and description as trimmed by the
\* controller) and updatedAt, which becomes the time of the call; id, owner,
\* createdAt and the fields not provided, every other folder, and every
\* association and app are unchanged.
C15_UpdateFrame ==
    [][\A u \in Users, body \in FieldUpdateBodies :
          (/\ last'.op = "updateFolder" /\ last'.status = 200
           /\ HUpdateFolder(u, 1, body))
          => \E f \in folders, g \in folders' :
                /\ f.id = 1 /\ g.id = 1 /\ f.userId = u
                /\ folders' \ {g} = folders \ {f}
                /\ appFolders' = appFolders /\ apps' = apps /\ nextId' = nextId
                /\ g.userId = f.userId /\ g.createdAt = f.createdAt
                /\ g.updatedAt = clock
                /\ g.name = Updated(f.name, OptTrim(body.name))
                /\ g.description =
                     (IF IsSome(body.description) THEN OptTrim(body.description)
                      ELSE f.description)
                /\ g.color = (IF IsSome(body.color) THEN body.color ELSE f.color)
                /\ g.icon = (IF IsSome(body.icon) THEN body.icon ELSE f.icon)
                /\ g.order = Updated(f.order, body.order)]_vars

\* folder 1, which has all its optional fields set, a changed name and app a1
\* in it, has just been updated at a later time than it was created, and an
\* untouched folder stands beside it
C15_Witness ==
    /\ last.op = "updateFolder" /\ last.status = 200
    /\ \E f, g \in folders :
          /\ f.id = 1 /\ g.id = 2
          /\ f.updatedAt > f.createdAt /\ f.updatedAt = clock
          /\ f.name = NameB /\ IsSome(f.color) /\ IsSome(f.description)
          /\ g.updatedAt = g.createdAt
    /\ [appId |-> "a1", folderId |-> 1] \in appFolders

----------------------------------------------------------------------------
(* The derived app count *)

\* C14: the appCount that getUserFolders and getFolderById return for a
\* folder is the number of association rows referencing it in the state the
\* query runs in: 0 for a folder without associations, a new one included.
C14_AppCountIsCurrent ==
    /\ \A f \in folders :
          /\ IsSome(getFolderById(DB, f.id, f.userId))
          /\ Val(getFolderById(DB, f.id, f.userId)).appCount
                = Cardinality(Referencing(f.id))
          /\ \A r \in getUserFolders(DB, f.userId) :
                \E i \in DOMAIN r :
                    r[i].id = f.id /\ r[i].appCount = Cardinality(Referencing(f.id))
    /\ (last.op = "createFolder" /\ last.status = 200)
          => Val(getFolderById(DB, last.newId, (CHOOSE f \in folders : f.id = last.newId).userId)).appCount = 0

\* u1 has a folder holding both apps and a folder holding none
C14_Witness ==
    \E f, g \in folders :
        /\ f.userId = "u1" /\ g.userId = "u1"
        /\ Cardinality(Referencing(f.id)) = 2 /\ Referencing(g.id) = {}

----------------------------------------------------------------------------
(* The list-apps-in-folder route *)

\* C13 as stated: every folder-addressed handler, list-apps-in-folder
\* included, answers 404 for a folder id that does not exist or is owned by
\* another user.
C13_UniformNotFound ==
    [][\A u \in Users, id \in 1..MaxFolders :
          (/\ last'.op = "getAppsInFolder"
           /\ ForeignFolder(u, id) \/ NoSuchFolder(id)
           /\ HGetAppsInFolder(u, id))
          => last'.status = 404]_vars

----------------------------------------------------------------------------
(* Calls by a user who is not the owner *)

\* C21: an update or delete of a folder that is not the caller's, or that does
\* not exist, and a move of an app that is not the caller's (to a folder or
\* to null) or to a folder that is not the caller's, return null / false (the
\* handler answers 404) and leave every folder, its updatedAt included, every
\* association and every app as they were.
C21_ForeignCallsChangeNothing ==
    [][\A u \in Users :
          /\ \A body \in FrameUpdateBodies :
                (/\ last'.op = "updateFolder" /\ ~OwnsFolder(u, 1)
                 /\ HUpdateFolder(u, 1, body))
                => /\ updateFolder(DB, 1, u, body, clock).ret = None
                   /\ last'.status = 404 /\ StoreUnchanged
          /\ (/\ last'.op = "deleteFolder" /\ ~OwnsFolder(u, 1)
              /\ HDeleteFolder(u, 1))
                => /\ deleteFolder(DB, 1, u).ret = FALSE
                   /\ last'.status = 404 /\ StoreUnchanged
          /\ \A body \in FrameMoveBodies :
                (/\ last'.op = "moveAppToFolder"
                 /\ \/ ~OwnsApp(u, body.appId)
                    \/ IsSome(body.folderId) /\ ~OwnsFolder(u, Val(body.folderId))
                 /\ HMoveAppToFolder(u, body))
                => /\ moveAppToFolder(DB, body.appId, body.folderId, u).ret = FALSE
                   /\ last'.status = 404 /\ StoreUnchanged]_vars

\* u1's folder 1, created at time 0 and holding app a1, has just been refused
\* to u2 for an update at a later time, and still carries its first updatedAt
C21_Witness ==
    /\ last.op = "updateFolder" /\ last.status = 404
    /\ clock > 0
    /\ \E f \in folders : f.id = 1 /\ f.userId = "u1" /\ f.updatedAt = 0
    /\ [appId |-> "a1", folderId |-> 1] \in appFolders

\* C22: whatever calls have run one after the other, every association links
\* an app and a folder of the same owner; a move that succeeds was asked for
\* by the owner of both.
C22_SameOwner ==
    /\ [](\A af \in appFolders :
            \E a \in apps, f \in folders :
                a.id = af.appId /\ f.id = af.folderId /\ a.userId = f.userId)
    /\ [][\A u \in Users, body \in MoveBodies :
            (/\ last'.op = "moveAppToFolder" /\ last'.status = 200
             /\ HMoveAppToFolder(u, body))
            => /\ OwnsApp(u, body.appId)
               /\ IsSome(body.folderId) => OwnsFolder(u, Val(body.folderId))]_vars

\* each user's app is in a folder of that user, and a move into a folder of
\* the other user has just been refused
C22_Witness ==
    /\ last.op = "moveAppToFolder" /\ last.status = 404 /\ last.at = "folder not owned"
    /\ \E f, g \in folders :
          /\ f.userId = "u1" /\ [appId |-> "a1", folderId |-> f.id] \in appFolders
          /\ g.userId = "u2" /\ [appId |-> "a2", folderId |-> g.id] \in appFolders

----------------------------------------------------------------------------
(* A move that interleaves with the deletion of its target folder *)

\* C23: every association row references a folder that exists, also while
\* the statements of a move and of a delete of its target folder interleave:
\* an INSERT that comes after the folder's row is gone is refused by the
\* foreign key and the request ends in error, and a row inserted before the
\* folder's row goes is removed with it.
C23_NoDanglingAssociation ==
    /\ [](\A af \in appFolders : \E f \in folders : f.id = af.folderId)
    /\ [][\A p \in Workers :
            (/\ InsertEnds(p)
             /\ \A f \in folders : f.id /= Val(calls[p].folderId)
             /\ MoveInsert(p))
            => /\ calls'[p].status = 500
               /\ appFolders' = appFolders]_vars

\* a move whose ownership check passed has ended in error: the folder it was
\* to file app a1 in was deleted meanwhile, and a1 is in no folder
C23_Witness ==
    \E p \in Workers, q \in Workers :
        /\ calls[p].op = "moveAppToFolder" /\ calls[p].pc = "done"
        /\ calls[p].status = 500
        /\ calls[q].op = "deleteFolder" /\ calls[q].pc = "done"
        /\ calls[q].status = 200 /\ calls[q].folderId = calls[p].folderId
        /\ \A f \in folders : f.id /= Val(calls[p].folderId)
        /\ appFolders = {}

----------------------------------------------------------------------------
(* Creates of one user that interleave *)

\* a user's folders have pairwise distinct order values
DistinctOrders ==
    \A f \in folders, g \in folders :
        (f.userId = g.userId /\ f.order = g.order) => f.id = g.id

\* C24 as stated: with no order updates the order values of a user's folders
\* are pairwise distinct in every reachable state, also when the MAX query
\* and the INSERT of two creates interleave.
C24_DistinctOrders == DistinctOrders

\* C24 amended: an INSERT of a create that no other create of the user
\* overtook since its MAX query writes an order above every order the user's
\* folders have, so without interleaving the orders stay pairwise distinct;
\* an order is repeated only by the INSERT of a create that was overtaken.
C24_DuplicateOnlyWhenOvertaken ==
    [][\A p \in Workers :
            (calls[p].pc = "insertFolder" /\ CreateInsert(p))
            => /\ ~calls[p].raced
                    => \A f \in FoldersOf(calls[p].u) : f.order < calls[p].nextOrder
               /\ (DistinctOrders /\ ~DistinctOrders') => calls[p].raced]_vars

\* both creates of u1 answered 200 and their two folders have the same order
C24_Witness ==
    /\ \A p \in Workers :
          /\ calls[p].op = "createFolder" /\ calls[p].pc = "done"
          /\ calls[p].status = 200 /\ calls[p].u = "u1"
    /\ \E f \in folders, g \in folders :
          /\ f.id = Val(calls["w1"].folderId) /\ g.id = Val(calls["w2"].folderId)
          /\ f.id /= g.id /\ f.order = g.order

----------------------------------------------------------------------------
(* A move of an app to the folder it is in *)

\* C25: moving an app to the folder it is already in succeeds and leaves what
\* was there.  When the DELETE of a move removed the row (A, F) it is about
\* to insert, and no other request wrote A's rows since, the INSERT is not
\* refused by the unique index: the request answers 200 "App moved to
\* folder" and A has exactly one association, to F, as before the move.
\* Between the two statements A has none.
C25_MoveToSameFolder ==
    /\ [](\A p \in Workers :
            (calls[p].pc = "insert" /\ ~calls[p].raced) => RowsOf(calls[p].appId) = {})
    /\ [][\A p \in Workers :
            (/\ InsertEnds(p) /\ calls[p].hadTarget /\ ~calls[p].raced
             /\ MoveInsert(p))
            => LET row == [appId |-> calls[p].appId,
                           folderId |-> Val(calls[p].folderId)]
               IN  /\ calls'[p].status = 200
                   /\ calls'[p].message = "App moved to folder"
                   /\ { af \in appFolders' : af.appId = calls[p].appId } = {row}]_vars

\* a move of a1 to the folder that held it has answered 200: its DELETE removed
\* one row, the row for that folder, and a1 is in that folder and no other
C25_Witness ==
    \E p \in Workers :
        /\ calls[p].op = "moveAppToFolder" /\ calls[p].pc = "done"
        /\ calls[p].status = 200 /\ calls[p].hadTarget /\ calls[p].removed = 1
        /\ ~calls[p].raced
        /\ RowsOf(calls[p].appId)
              = {[appId |-> calls[p].appId, folderId |-> Val(calls[p].folderId)]}

====
